---- MODULE Spec2Model ----
(***************************************************************************)
(* MrKnowItAll: the incremental re-indexing loop of app.py (update_files,  *)
(* delete_vectors, embed_csv_and_store, format_entries, the manifest file) *)
(* and the query agent of chat.py (chat_agent, ollama_chat).               *)
(*                                                                         *)
(* Python strings are sequences of one-character strings; None is the      *)
(* one-element sequence <<"<None>">>, which is no string of characters.    *)
(***************************************************************************)
EXTENDS Integers, Sequences, FiniteSets, TLC

VARIABLES
  pc,            \* position of the __main__ loop of app.py
  disk,          \* the documents/ directory: file name -> file or Absent
  now,           \* the file system clock (source of modification times)
  manifestFile,  \* processed_files.json: NoFile, Corrupt or its JSON members
  collection,    \* the ChromaDB collection: vector id -> vector
  calls,         \* gateway calls made by the latest update_files pass
  met,           \* failures of the outside world met by the latest pass
  writes,        \* writes of processed_files.json made by the latest pass
  caught,        \* the latest pass ended in the except block of update_files
  faulted,       \* whether any pass so far met a failure of the outside world
  unchanged,     \* no file was written or removed since the latest pass
  entries,       \* argument of a stand-alone format_entries call
  formatted,     \* its result
  chatQuery,     \* argument of the latest chat_agent call
  chatGateways,  \* outcomes the gateways gave to that call
  chatCalls,     \* gateway calls made by that call
  chatReply      \* what chat_agent returned (or that it raised)

vars == <<pc, disk, now, manifestFile, collection, calls, met, writes, caught, faulted,
          unchanged,
          entries, formatted, chatQuery, chatGateways, chatCalls, chatReply>>

reconcilerVars ==
  <<pc, disk, now, manifestFile, collection, calls, met, writes, caught, faulted,
    unchanged>>
formatVars == <<entries, formatted>>
chatVars == <<chatQuery, chatGateways, chatCalls, chatReply>>

----------------------------------------------------------------------------
(* Bounds *)

MaxTime == 2
MaxRows == 2
MaxFaults == 1
MaxEntries == 2

----------------------------------------------------------------------------
(* Strings *)

None == <<"<None>">>

IsNone(v) == v = None

IsSpace(c) == c = " "

RECURSIVE LStrip(_)
LStrip(s) == IF s # <<>> /\ IsSpace(Head(s)) THEN LStrip(Tail(s)) ELSE s

RECURSIVE RStrip(_)
RStrip(s) ==
  IF s # <<>> /\ IsSpace(s[Len(s)]) THEN RStrip(SubSeq(s, 1, Len(s) - 1)) ELSE s

\* str.strip()
Strip(s) == RStrip(LStrip(s))

\* Python truthiness of a str
Truthy(s) == Len(s) > 0

CharCode(c) ==
  CASE c = " " -> 32
    [] c = "(" -> 40
    [] c = ")" -> 41
    [] c = "," -> 44
    [] c = ":" -> 58
    [] c = "a" -> 97
    [] c = "s" -> 115
    [] c = "t" -> 116
    [] OTHER -> 63

\* the values of hash(), 64 bits wide in CPython, are folded into this range
HashSpace == 65536

\* hash(sentence): a deterministic function of the text within one process;
\* two texts may have one hash
RECURSIVE HashFrom(_, _)
HashFrom(h, s) ==
  IF s = <<>> THEN h
  ELSE HashFrom((h * 31 + CharCode(Head(s))) % HashSpace, Tail(s))

Hash(s) == HashFrom(7, s)

----------------------------------------------------------------------------
(* format_entries *)

\* f"{name}: {content} ({topic}, {source})"
Sentence(name, topic, source, content) ==
  name \o <<":", " ">> \o content \o <<" ", "(">> \o topic
       \o <<",", " ">> \o source \o <<")">>

\* f"{hash(sentence)}_{i}"; the part after the last "_" is i
Uid(sentence, i) == <<Hash(sentence), i>>

ChunkIndex(uid) == uid[2]

\* entry.get(k, "").strip() raises AttributeError when the value is None
EntryRaises(entry) ==
  \/ IsNone(entry.name)
  \/ IsNone(entry.topic)
  \/ IsNone(entry.source)
  \/ IsNone(entry.content)

\* a test that forgets the content
IncludedByNameOnly(entry) == Truthy(Strip(entry.name))

\* if name and content:
Included(entry) == Truthy(Strip(entry.name)) /\ Truthy(Strip(entry.content))

FormatOne(entry, i) ==
  LET sentence == Sentence(Strip(entry.name), Strip(entry.topic),
                           Strip(entry.source), Strip(entry.content))
  IN [uid |-> Uid(sentence, i), text |-> sentence]

\* the loop of format_entries from row i (0-based) on, formatted so far in acc
RECURSIVE FormatLoop(_, _, _)
FormatLoop(es, i, acc) ==
  IF i >= Len(es) THEN [raised |-> FALSE, val |-> acc]
  ELSE LET entry == es[i + 1] IN
       IF EntryRaises(entry) THEN [raised |-> TRUE, val |-> <<>>]
       ELSE IF Included(entry)
            THEN FormatLoop(es, i + 1, Append(acc, FormatOne(entry, i)))
            ELSE FormatLoop(es, i + 1, acc)

format_entries(es) == FormatLoop(es, 0, <<>>)

----------------------------------------------------------------------------
(* Inputs of the stand-alone format_entries calls *)

FieldVals == { <<>>, <<" ">>, <<"a">>, <<" ", "a", " ">>, None }
TagVals == { [topic |-> <<>>, source |-> <<>>],
             [topic |-> <<"t">>, source |-> <<" ", "s">>] }

EntryVals ==
  { [name |-> n, topic |-> tg.topic, source |-> tg.source, content |-> c] :
      n \in FieldVals, c \in FieldVals, tg \in TagVals }

SeqsUpTo(S, n) == UNION { [1..k -> S] : k \in 0..n }

NotRun == [run |-> FALSE, raised |-> FALSE, val |-> <<>>]

----------------------------------------------------------------------------
(* The watch directory *)

FileNames == {"a.csv", "b.csv"}

RowX == [name |-> <<"a">>, topic |-> <<"t">>, source |-> <<"s">>,
         content |-> <<" ", "a", " ">>]
RowBlank == [name |-> <<"a">>, topic |-> <<"t">>, source |-> <<"s">>,
             content |-> <<" ">>]
RowShort == [name |-> <<"a">>, topic |-> <<"t">>, source |-> None,
             content |-> None]

RowVals == {RowX, RowBlank, RowShort}

\* a file that is empty or cannot be read: read_local_file returns ""
EmptyBody == [empty |-> TRUE, rows |-> <<>>]

Bodies ==
  {EmptyBody} \cup { [empty |-> FALSE, rows |-> r] : r \in SeqsUpTo(RowVals, MaxRows) }

Absent == [present |-> FALSE, modified |-> 0, body |-> EmptyBody]

Present(dsk) == { n \in FileNames : dsk[n].present }

\* os.listdir gives the names in no particular order
Orders(S) ==
  { o \in [1..Cardinality(S) -> S] : \A i, j \in DOMAIN o : o[i] = o[j] => i = j }

\* list_local_files: the .csv files of documents/, in the order o
list_local_files(dsk, o) ==
  [k \in DOMAIN o |-> [name |-> o[k], modified |-> dsk[o[k]].modified]]

\* a test by the file name the key begins with
PathExistsByName(dsk, key) == key[1] \in Present(dsk)

\* os.path.exists(os.path.join(..., "documents", key)) for a manifest key
PathExists(dsk, key) == key \in { <<n>> : n \in Present(dsk) }

----------------------------------------------------------------------------
(* The manifest: processed_files.json *)

\* datetime.fromtimestamp(t).isoformat(): a str, not a number
IsoFormat(t) == [iso |-> t]

\* f"{filename}_{modified_str}"
FileId(filename, modified_str) == <<filename, "_", modified_str>>

NoFile == [state |-> "nofile", members |-> {}]
Corrupt == [state |-> "corrupt", members |-> {}]

\* json.dump(processed_files, f, indent=2)
JsonDump(pf) ==
  [state |-> "json",
   members |-> { [key |-> k, modified |-> pf[k].modified,
                  vectors |-> pf[k].vectors, name |-> pf[k].name] : k \in DOMAIN pf }]

\* a load that keys each record by its file name instead of its own key
JsonLoadByName(mf) ==
  [k \in { <<m.name>> : m \in mf.members } |->
     LET m == CHOOSE m \in mf.members : <<m.name>> = k
     IN [modified |-> m.modified, vectors |-> m.vectors, name |-> m.name]]

\* json.load(f)
JsonLoad(mf) ==
  [k \in { m.key : m \in mf.members } |->
     LET m == CHOOSE m \in mf.members : m.key = k
     IN [modified |-> m.modified, vectors |-> m.vectors, name |-> m.name]]

\* load_processed_files: {} when the file does not exist; raises when it
\* cannot be read or parsed
load_processed_files(mf) ==
  IF mf.state = "corrupt" THEN [raised |-> TRUE, val |-> <<>>]
  ELSE IF mf.state = "nofile" THEN [raised |-> FALSE, val |-> <<>>]
  ELSE [raised |-> FALSE, val |-> JsonLoad(mf)]

\* dict.get(key): the value, or None
DictHas(pf, key) == key \in DOMAIN pf

\* a deletion that is lost: the key stays
DictDelLost(pf, key) == pf

\* del processed_files[key]
DictDel(pf, key) == [k \in DOMAIN pf \ {key} |-> pf[k]]

\* processed_files[key] = value
DictSet(pf, key, value) ==
  [k \in DOMAIN pf \cup {key} |-> IF k = key THEN value ELSE pf[k]]

----------------------------------------------------------------------------
(* Failures of the outside world met by one pass of update_files *)

FaultPoints(dsk) ==
  {<<"list">>, <<"save">>}
    \cup { <<"delete", n>> : n \in Present(dsk) }
    \cup { <<"embed", n, i>> : n \in Present(dsk), i \in 0..(MaxRows - 1) }
    \cup { <<"add", n, i>> : n \in Present(dsk), i \in 0..(MaxRows - 1) }

FaultPlans(dsk) ==
  { F \in SUBSET FaultPoints(dsk) : Cardinality(F) <= MaxFaults }

\* the state a pass works on: the collection, the manifest file, the calls
\* made so far, the failures met so far, the manifest writes made so far,
\* and whether an exception is propagating
PassState(coll, mf) ==
  [coll |-> coll, mf |-> mf, calls |-> <<>>, hit |-> {}, writes |-> <<>>,
   raised |-> FALSE]

Raise(st) == [st EXCEPT !.raised = TRUE]

Hit(st, point) == [st EXCEPT !.hit = @ \cup {point}]

Call(op, file, uid, ok) == [op |-> op, file |-> file, uid |-> uid, ok |-> ok]

\* a write of the manifest: the mapping given to save_processed_files and
\* the file as it is on disk when the call returns
Write(pf, file) == [pf |-> pf, file |-> file]

\* save_processed_files: open(..., "w") raises when the file is unwritable
save_processed_files(st, pf, faults) ==
  IF <<"save">> \in faults THEN Raise(Hit(st, <<"save">>))
  ELSE [st EXCEPT !.mf = JsonDump(pf),
                  !.writes = Append(@, Write(pf, JsonDump(pf)))]

----------------------------------------------------------------------------
(* The vector store gateway *)

PreviewLen == 100

Min(a, b) == IF a < b THEN a ELSE b

\* text[:100]
Preview(text) == SubSeq(text, 1, Min(PreviewLen, Len(text)))

Metadata(filename, uid, text) ==
  [file_name |-> filename, chunk_index |-> ChunkIndex(uid), text |-> Preview(text)]

\* collection.add(ids=[uid], ...): an id the collection already holds is
\* left as it is
CollectionAdd(coll, uid, metadata, document) ==
  IF uid \in DOMAIN coll THEN coll
  ELSE [u \in DOMAIN coll \cup {uid} |->
          IF u = uid THEN [metadata |-> metadata, document |-> document]
          ELSE coll[u]]

\* collection.delete(where={"file_name": file_name})
CollectionDelete(coll, file_name) ==
  [u \in { v \in DOMAIN coll : coll[v].metadata.file_name # file_name } |-> coll[u]]

----------------------------------------------------------------------------
(* delete_vectors *)

delete_vectors(st, file_name, faults) ==
  IF load_processed_files(st.mf).raised THEN Raise(st)
  ELSE IF <<"delete", file_name>> \in faults
       THEN [Hit(st, <<"delete", file_name>>) EXCEPT
               !.calls = Append(@, Call("delete", file_name, <<>>, FALSE))]
       ELSE [st EXCEPT !.coll = CollectionDelete(@, file_name),
                       !.calls = Append(@, Call("delete", file_name, <<>>, TRUE))]

----------------------------------------------------------------------------
(* embed_csv_and_store *)

\* the for loop over formatted_entries, from entry k on; inserted_ids so far
RECURSIVE EmbedLoop(_, _, _, _, _, _)
EmbedLoop(st, filename, fes, k, inserted_ids, faults) ==
  IF k > Len(fes) THEN [st |-> st, inserted_ids |-> inserted_ids]
  ELSE
    LET uid == fes[k].uid
        text == fes[k].text
        i == ChunkIndex(uid)
        embedded == <<"embed", filename, i>> \notin faults
        st1 == [st EXCEPT !.calls = Append(@, Call("embed", filename, uid, embedded))]
    IN IF ~embedded
       THEN EmbedLoop(Hit(st1, <<"embed", filename, i>>), filename, fes, k + 1,
                      inserted_ids, faults)
       ELSE IF <<"add", filename, i>> \in faults
            THEN [st |-> Raise([Hit(st1, <<"add", filename, i>>) EXCEPT
                                  !.calls = Append(@, Call("add", filename, uid, FALSE))]),
                  inserted_ids |-> inserted_ids]
            ELSE EmbedLoop(
                   [st1 EXCEPT
                      !.coll = CollectionAdd(@, uid, Metadata(filename, uid, text), text),
                      !.calls = Append(@, Call("add", filename, uid, TRUE))],
                   filename, fes, k + 1, Append(inserted_ids, uid), faults)

embed_csv_and_store(st, filename, file, faults) ==
  LET modified_str == IsoFormat(file.modified)
      file_id == FileId(filename, modified_str)
  IN IF file.body.empty THEN st
     ELSE
       LET fr == format_entries(file.body.rows) IN
       IF fr.raised THEN Raise(st)
       ELSE
         LET loaded == load_processed_files(st.mf) IN
         IF loaded.raised THEN Raise(st)
         ELSE
           LET r == EmbedLoop(st, filename, fr.val, 1, <<>>, faults) IN
           IF r.st.raised \/ r.inserted_ids = <<>> THEN r.st
           ELSE save_processed_files(
                  r.st,
                  DictSet(loaded.val, file_id,
                          [modified |-> modified_str,
                           vectors |-> r.inserted_ids,
                           name |-> filename]),
                  faults)

----------------------------------------------------------------------------
(* update_files *)

\* the first loop: every manifest key whose path does not exist is deleted
\* from processed_files, and the manifest is saved after each deletion
RECURSIVE DeletionScan(_, _, _, _, _)
DeletionScan(st, pf, keys, dsk, faults) ==
  IF keys = {} THEN [st |-> st, pf |-> pf]
  ELSE
    LET file_name == CHOOSE k \in keys : TRUE IN
    IF PathExists(dsk, file_name)
    THEN DeletionScan(st, pf, keys \ {file_name}, dsk, faults)
    ELSE
      LET pf1 == DictDel(pf, file_name)
          st1 == save_processed_files(st, pf1, faults)
      IN IF st1.raised THEN [st |-> st1, pf |-> pf1]
         ELSE DeletionScan(st1, pf1, keys \ {file_name}, dsk, faults)

\* not existing or file["modified"] > existing["modified"]; the comparison
\* of a float with the str of a record raises TypeError
NeedsProcessing(pf, file) ==
  IF ~DictHas(pf, <<file.name>>) THEN "yes" ELSE "TypeError"

\* the second loop, from current_files[j] on
RECURSIVE FilesLoop(_, _, _, _, _, _)
FilesLoop(st, pf, current_files, j, dsk, faults) ==
  IF j > Len(current_files) THEN st
  ELSE
    LET file == current_files[j]
        needs == NeedsProcessing(pf, file)
    IN IF needs = "TypeError" THEN Raise(st)
       ELSE
         LET st1 == delete_vectors(st, file.name, faults) IN
         IF st1.raised THEN st1
         ELSE
           LET st2 == embed_csv_and_store(st1, file.name, dsk[file.name], faults) IN
           IF st2.raised THEN st2
           ELSE FilesLoop(st2, pf, current_files, j + 1, dsk, faults)

\* one pass.  crashed: the exception left update_files (the load at its top
\* is outside the try); otherwise every exception is caught and printed
update_files(coll, mf, dsk, order, faults) ==
  LET st0 == PassState(coll, mf)
      loaded == load_processed_files(mf)
  IN IF loaded.raised THEN [crashed |-> TRUE, st |-> st0]
     ELSE IF <<"list">> \in faults
          THEN [crashed |-> FALSE, st |-> Raise(Hit(st0, <<"list">>))]
     ELSE
       LET current_files == list_local_files(dsk, order)
           scan == DeletionScan(st0, loaded.val, DOMAIN loaded.val, dsk, faults)
       IN IF scan.st.raised THEN [crashed |-> FALSE, st |-> scan.st]
          ELSE [crashed |-> FALSE,
                st |-> FilesLoop(scan.st, scan.pf, current_files, 1, dsk, faults)]

----------------------------------------------------------------------------
(* The reconciler process and its surroundings *)

EmptyCollection == <<>>

InitReconciler ==
  /\ pc = "update"
  /\ disk = [n \in FileNames |-> Absent]
  /\ now = 0
  /\ manifestFile = NoFile
  /\ collection = EmptyCollection
  /\ calls = <<>>
  /\ met = {}
  /\ writes = <<>>
  /\ caught = FALSE
  /\ faulted = FALSE
  /\ unchanged = FALSE

\* while True: update_files(); wait_or_pull(...)
UpdateFiles ==
  /\ pc = "update"
  /\ \E order \in Orders(Present(disk)), faults \in FaultPlans(disk) :
       LET r == update_files(collection, manifestFile, disk, order, faults) IN
       /\ pc' = IF r.crashed THEN "crashed" ELSE "wait"
       /\ collection' = r.st.coll
       /\ manifestFile' = r.st.mf
       /\ calls' = r.st.calls
       /\ met' = r.st.hit
       /\ writes' = r.st.writes
       /\ caught' = (~r.crashed /\ r.st.raised)
       /\ faulted' = (faulted \/ r.st.hit # {} \/ r.crashed)
  /\ unchanged' = TRUE
  /\ UNCHANGED <<disk, now>>

\* wait_or_pull returns on "pull" or when the interval has elapsed; the
\* record of the finished pass's calls is dropped
WaitOrPull ==
  /\ pc = "wait"
  /\ pc' = "update"
  /\ calls' = <<>>
  /\ met' = {}
  /\ writes' = <<>>
  /\ caught' = FALSE
  /\ UNCHANGED <<disk, now, manifestFile, collection, faulted, unchanged>>

\* "q": sys.exit(0)
Quit ==
  /\ pc = "wait"
  /\ pc' = "exited"
  /\ UNCHANGED <<disk, now, manifestFile, collection, calls, met, writes, caught,
                 faulted, unchanged>>

\* a CSV file is created or rewritten in documents/ (what happens to the
\* directory during wait_or_pull is seen by the pass that follows it)
WriteFile ==
  /\ pc = "update"
  /\ now < MaxTime
  /\ \E n \in FileNames, body \in Bodies :
       /\ disk[n].present => disk[n].body # body
       /\ disk' = [disk EXCEPT ![n] = [present |-> TRUE, modified |-> now + 1,
                                       body |-> body]]
  /\ now' = now + 1
  /\ unchanged' = FALSE
  /\ UNCHANGED <<pc, manifestFile, collection, calls, met, writes, caught, faulted>>

\* a CSV file is removed from documents/
RemoveFile ==
  /\ pc = "update"
  /\ \E n \in Present(disk) : disk' = [disk EXCEPT ![n] = Absent]
  /\ unchanged' = FALSE
  /\ UNCHANGED <<pc, now, manifestFile, collection, calls, met, writes, caught, faulted>>

\* processed_files.json becomes unreadable or unparsable
DamageManifest ==
  /\ pc = "update"
  /\ manifestFile.state = "json"
  /\ manifestFile' = Corrupt
  /\ UNCHANGED <<pc, disk, now, collection, calls, met, writes, caught, faulted,
                 unchanged>>

Init ==
  /\ InitReconciler
  /\ entries = <<>>
  /\ formatted = NotRun
  /\ chatQuery = <<>>
  /\ chatGateways = <<>>
  /\ chatCalls = <<>>
  /\ chatReply = <<>>

Next ==
  \/ UpdateFiles /\ UNCHANGED <<formatVars, chatVars>>
  \/ WaitOrPull /\ UNCHANGED <<formatVars, chatVars>>
  \/ Quit /\ UNCHANGED <<formatVars, chatVars>>
  \/ WriteFile /\ UNCHANGED <<formatVars, chatVars>>
  \/ RemoveFile /\ UNCHANGED <<formatVars, chatVars>>
  \/ DamageManifest /\ UNCHANGED <<formatVars, chatVars>>

Spec == Init /\ [][Next]_vars

----------------------------------------------------------------------------
(* Stand-alone calls of format_entries *)

InitFormat ==
  /\ InitReconciler
  /\ entries \in SeqsUpTo(EntryVals, MaxEntries)
  /\ formatted = NotRun
  /\ chatQuery = <<>>
  /\ chatGateways = <<>>
  /\ chatCalls = <<>>
  /\ chatReply = <<>>

FormatEntries ==
  /\ ~formatted.run
  /\ LET r == format_entries(entries) IN
       formatted' = [run |-> TRUE, raised |-> r.raised, val |-> r.val]
  /\ UNCHANGED <<entries, reconcilerVars, chatVars>>

NextFormat == FormatEntries

SpecFormat == InitFormat /\ [][NextFormat]_vars

----------------------------------------------------------------------------
(* chat.py: chat_agent and ollama_chat *)

NResults == 3

EmbeddingFailedMsg == <<"Error al obtener los embeddings para la consulta.">>
\* "Error al consultar la colección.", written here without its accent
QueryFailedMsg == <<"Error al consultar la coleccion.">>
NoDocumentsMsg == <<"No se encontraron documentos relevantes.">>
ChatFailedPrefix == <<"Error al obtener la respuesta del modelo: ">>

\* " ".join(documents)
RECURSIVE JoinSpace(_)
JoinSpace(docs) ==
  IF docs = <<>> THEN <<>>
  ELSE IF Len(docs) = 1 THEN docs[1]
  ELSE docs[1] \o <<" ">> \o JoinSpace(Tail(docs))

\* index of the first occurrence of token t in s at or after position i, or 0
RECURSIVE FindFrom(_, _, _)
FindFrom(s, t, i) ==
  IF i > Len(s) THEN 0 ELSE IF s[i] = t THEN i ELSE FindFrom(s, t, i + 1)

\* re.sub(r"<think>.*?</think>", "", content, flags=re.DOTALL)
RECURSIVE RemoveThink(_)
RemoveThink(s) ==
  LET open == FindFrom(s, "<think>", 1)
      close == IF open = 0 THEN 0 ELSE FindFrom(s, "</think>", open + 1)
  IN IF open = 0 \/ close = 0 THEN s
     ELSE SubSeq(s, 1, open - 1) \o RemoveThink(SubSeq(s, close + 1, Len(s)))

\* what the gateways may answer
EmbedOutcomes == {"vector", "fails"}

DocVals == { <<>>, <<" ">>, <<"a">> }

QueryOutcomes ==
  { [kind |-> "raises", documents |-> <<>>],
    [kind |-> "none", documents |-> <<>>],
    [kind |-> "nokey", documents |-> <<>>],
    [kind |-> "nolists", documents |-> <<>>] }
    \cup { [kind |-> "lists", documents |-> d] : d \in SeqsUpTo(DocVals, NResults) }

ChatOutcomes ==
  { [kind |-> "raises", detail |-> <<"connection refused">>, content |-> <<>>],
    [kind |-> "raises", detail |-> <<"model not found">>, content |-> <<>>],
    [kind |-> "malformed", detail |-> <<"'message'">>, content |-> <<>>],
    [kind |-> "answers", detail |-> <<>>, content |-> <<"a">>],
    [kind |-> "answers", detail |-> <<>>,
     content |-> <<"<think>", "t", " ", "</think>", " ", "a", " ">>],
    [kind |-> "answers", detail |-> <<>>, content |-> <<"<think>", "a">>] }

Queries == { <<"a">>, <<>> }

Returned(calls_, text) == [raised |-> FALSE, calls |-> calls_, val |-> text]
Raised(calls_) == [raised |-> TRUE, calls |-> calls_, val |-> <<>>]

\* a test of the context that forgets to strip it
BlankContextUnstripped(context) == ~Truthy(context)

\* if not context.strip():
BlankContext(context) == ~Truthy(Strip(context))

\* the chat call without its try block
ollama_chat_unguarded(calls_, chatOutcome) ==
  IF chatOutcome.kind \in {"raises", "malformed"}
  THEN Raised(Append(calls_, "chat"))
  ELSE Returned(Append(calls_, "chat"), Strip(RemoveThink(chatOutcome.content)))

\* ollama_chat: every exception of the chat call and of the clean-up is
\* caught and turned into a message
ollama_chat(calls_, chatOutcome) ==
  IF chatOutcome.kind \in {"raises", "malformed"}
  THEN Returned(Append(calls_, "chat"), ChatFailedPrefix \o chatOutcome.detail)
  ELSE Returned(Append(calls_, "chat"), Strip(RemoveThink(chatOutcome.content)))

chat_agent(query, embedOutcome, queryOutcome, chatOutcome) ==
  LET c1 == <<"embed">> IN
  IF embedOutcome = "fails" THEN Returned(c1, EmbeddingFailedMsg)
  ELSE
    LET c2 == Append(c1, "query") IN
    IF queryOutcome.kind = "raises" THEN Returned(c2, QueryFailedMsg)
    ELSE IF queryOutcome.kind \in {"none", "nokey", "nolists"}
         THEN Returned(c2, NoDocumentsMsg)
    ELSE
      LET context == JoinSpace(queryOutcome.documents) IN
      IF BlankContext(context) THEN Returned(c2, NoDocumentsMsg)
      ELSE ollama_chat(c2, chatOutcome)

InitChat ==
  /\ InitReconciler
  /\ entries = <<>>
  /\ formatted = NotRun
  /\ chatQuery = <<>>
  /\ chatGateways = <<>>
  /\ chatCalls = <<>>
  /\ chatReply = <<>>

\* one turn of main(): a question is read and chat_agent answers it
ChatAgent ==
  /\ \E query \in Queries, e \in EmbedOutcomes, q \in QueryOutcomes, c \in ChatOutcomes :
       LET r == chat_agent(query, e, q, c) IN
       /\ chatQuery' = query
       /\ chatGateways' = [embed |-> e, query |-> q, chat |-> c]
       /\ chatCalls' = r.calls
       /\ chatReply' = [raised |-> r.raised, val |-> r.val]
  /\ UNCHANGED <<reconcilerVars, formatVars>>

NextChat == ChatAgent

SpecChat == InitChat /\ [][NextChat]_vars

----------------------------------------------------------------------------
(* What the claims speak of *)

\* a step of the main loop in which update_files ran and returned
PassReturns == pc = "update" /\ pc' = "wait"

\* a str with a character that is no white space
NonBlank(v) == ~IsNone(v) /\ \E k \in DOMAIN v : v[k] # " "

\* a row with both required values present
RowIncluded(row) == NonBlank(row.name) /\ NonBlank(row.content)

WellFormed(row) ==
  ~IsNone(row.name) /\ ~IsNone(row.topic) /\ ~IsNone(row.source) /\ ~IsNone(row.content)

\* the (id, text) pairs of the included rows of a file
ExpectedEntries(file) ==
  { FormatOne(file.body.rows[k], k - 1) :
      k \in { j \in DOMAIN file.body.rows : RowIncluded(file.body.rows[j]) } }

ExpectedIds(file) == { e.uid : e \in ExpectedEntries(file) }

\* the ids of the vectors tagged with a file's name
VectorsOf(coll, n) == { u \in DOMAIN coll : coll[u].metadata.file_name = n }

\* the manifest holds a record of file n made at its present modified-time
Recorded(mf, dsk, n) ==
  \E m \in mf.members : m.name = n /\ m.modified = IsoFormat(dsk[n].modified)

\* the manifest holds a record of file n made at an earlier modified-time
RecordedEarlier(mf, dsk, n) ==
  \E m \in mf.members : m.name = n /\ m.modified.iso < dsk[n].modified

CallsOn(cs, op, n) == { k \in DOMAIN cs : cs[k].op = op /\ cs[k].file = n }

\* C1: when update_files runs again and no file was added, modified or
\* deleted since the previous run, every file having its record, the run
\* makes no embedding call and no collection.add or collection.delete call.
C1_SecondRunMakesNoCalls ==
  [][(PassReturns /\ unchanged /\ \A n \in Present(disk) : Recorded(manifestFile, disk, n))
       => \A k \in DOMAIN calls' : calls'[k].op \notin {"embed", "add", "delete"}]_vars

\* C2: after passes in which nothing failed, the collection holds, for every
\* file in the directory, exactly one vector per included row of its present
\* content, tagged with the file's name, and no other vector.
C2_StoreMirrorsFiles ==
  (pc = "wait" /\ ~faulted
     /\ \A n \in Present(disk) : \A k \in DOMAIN disk[n].body.rows :
          WellFormed(disk[n].body.rows[k]))
    => /\ \A n \in Present(disk) : VectorsOf(collection, n) = ExpectedIds(disk[n])
       /\ \A u \in DOMAIN collection :
            collection[u].metadata.file_name \in Present(disk)

\* C3: every vector id listed in a manifest record is the id of a vector of
\* the collection whose file_name is the record's file name.
C3_ManifestIdsAreLive ==
  \A m \in manifestFile.members : \A k \in DOMAIN m.vectors :
    /\ m.vectors[k] \in DOMAIN collection
    /\ collection[m.vectors[k]].metadata.file_name = m.name

\* C4: for a file whose modified-time is later than that of its record, the
\* pass (its directory listing and manifest saves succeeding) calls
\* collection.delete for the file before any collection.add for it, and when
\* that delete and the file's embeddings and adds succeed the vectors tagged
\* with the file are, after the pass, those of its included rows.
C4_ModifiedFileIsReplaced ==
  [][(PassReturns /\ <<"list">> \notin met' /\ <<"save">> \notin met') =>
       \A n \in Present(disk) :
         RecordedEarlier(manifestFile, disk, n) =>
           /\ CallsOn(calls', "delete", n) # {}
           /\ \A d \in CallsOn(calls', "delete", n), a \in CallsOn(calls', "add", n) :
                d < a
           /\ (\A k \in CallsOn(calls', "delete", n) \cup CallsOn(calls', "embed", n)
                        \cup CallsOn(calls', "add", n) : calls'[k].ok)
                => VectorsOf(collection', n) = ExpectedIds(disk[n])]_vars

C6_NoFatalError == pc # "crashed"

\* C7: when a collection.add fails for an entry of one file, every other
\* file of the directory that is new or modified is still deleted and
\* re-embedded in the same pass.
C7_AddFailureIsIsolated ==
  [][PassReturns =>
       \A f \in Present(disk) :
         (\E k \in CallsOn(calls', "add", f) : ~calls'[k].ok) =>
           \A g \in Present(disk) \ {f} :
             ~Recorded(manifestFile, disk, g) =>
               /\ CallsOn(calls', "delete", g) # {}
               /\ \A e \in ExpectedEntries(disk[g]) :
                    \E k \in CallsOn(calls', "embed", g) : calls'[k].uid = e.uid]_vars

----------------------------------------------------------------------------
(* The query agent *)

Asked == chatCalls # <<>>

Called(gateway) == \E k \in DOMAIN chatCalls : chatCalls[k] = gateway

\* the query gave nothing to answer from: no result, no documents, or only
\* blank documents
NothingRetrieved(q) ==
  \/ q.kind \in {"none", "nokey", "nolists"}
  \/ q.kind = "lists" /\ \A k \in DOMAIN q.documents : ~NonBlank(q.documents[k])

\* C8: chat_agent never raises; when the embedding fails it returns the
\* embedding-failed message and calls neither the collection nor the chat
\* model; when the chat call fails it returns the error message that ends
\* with the failure's detail.
C8_ChatAgentNeverRaises ==
  Asked =>
    /\ ~chatReply.raised
    /\ chatGateways.embed = "fails" =>
         chatReply.val = EmbeddingFailedMsg /\ chatCalls = <<"embed">>
    /\ (Called("chat") /\ chatGateways.chat.kind = "raises") =>
         chatReply.val = ChatFailedPrefix \o chatGateways.chat.detail

\* the chat call was reached and failed, and its detail came back in the reply
C8_Witness ==
  /\ Asked
  /\ Called("chat")
  /\ chatGateways.chat.kind = "raises"
  /\ chatReply.val = ChatFailedPrefix \o <<"connection refused">>

\* C9 as first stated: after the embedding, a failing query, a query with no
\* documents and a query with only blank documents all give the "no
\* relevant documents" message, and the chat model is not called.
C9_SameMessageInThreeCases ==
  (Asked /\ chatGateways.embed = "vector"
     /\ (chatGateways.query.kind = "raises" \/ NothingRetrieved(chatGateways.query)))
    => chatReply.val = NoDocumentsMsg /\ ~Called("chat")

\* C9: after the embedding, a failing query gives the "error querying the
\* collection" message, a query with no documents or only blank documents
\* gives the "no relevant documents" message, and in none of the three cases
\* is the chat model called.
C9_QueryFailureHasItsOwnMessage ==
  (Asked /\ chatGateways.embed = "vector") =>
    /\ chatGateways.query.kind = "raises" =>
         chatReply.val = QueryFailedMsg /\ ~Called("chat")
    /\ NothingRetrieved(chatGateways.query) =>
         chatReply.val = NoDocumentsMsg /\ ~Called("chat")

\* the query failed and the reply is the message of that failure
C9_Witness ==
  /\ Asked
  /\ chatGateways.embed = "vector"
  /\ chatGateways.query.kind = "raises"
  /\ chatReply.val = QueryFailedMsg
  /\ chatCalls = <<"embed", "query">>

----------------------------------------------------------------------------
(* The entry formatter *)

\* the positions (from 0) of the rows to include
IncludedPositions(es) == { i \in 0..(Len(es) - 1) : RowIncluded(es[i + 1]) }

\* C10: format_entries, when it returns, gives exactly the rows whose name
\* and content are not blank, in their order, each with its position among
\* all rows as the suffix of its id, so no two ids are equal.
C10_IncludedRowsAndIds ==
  (formatted.run /\ ~formatted.raised) =>
    /\ { ChunkIndex(formatted.val[k].uid) : k \in DOMAIN formatted.val }
         = IncludedPositions(entries)
    /\ \A k, l \in DOMAIN formatted.val :
         k < l => ChunkIndex(formatted.val[k].uid) < ChunkIndex(formatted.val[l].uid)
    /\ \A k, l \in DOMAIN formatted.val :
         k # l => formatted.val[k].uid # formatted.val[l].uid

\* a row with a name and a content of white space only is left out, and the
\* row after it, with empty topic and source, keeps position 1 in its id
C10_Witness ==
  /\ formatted.run
  /\ ~formatted.raised
  /\ Len(entries) = 2
  /\ entries[1].name = <<"a">> /\ entries[1].content = <<" ">>
  /\ entries[2].topic = <<>> /\ entries[2].source = <<>>
  /\ Len(formatted.val) = 1
  /\ ChunkIndex(formatted.val[1].uid) = 1

----------------------------------------------------------------------------
(* The first reconcile of a new file *)

\* the manifest file is missing or holds no record
EmptyManifest(mf) == mf.state # "corrupt" /\ mf.members = {}

RecordsOf(mf, n) == { m \in mf.members : m.name = n }

ElementsOf(seq) == { seq[k] : k \in DOMAIN seq }

\* C11: starting from an empty manifest and an empty collection, with one
\* CSV file of n >= 1 included rows in the directory, a pass in which no
\* listing, embedding, add, delete or save fails leaves exactly the n vectors
\* of those rows in the collection, all tagged with the file's name, and
\* exactly one manifest record for the file, whose vectors list has length n
\* and lists exactly those ids.
C11_FirstReconcile ==
  [][(PassReturns /\ met' = {} /\ EmptyManifest(manifestFile)
        /\ collection = EmptyCollection)
       => \A n \in Present(disk) :
            (Present(disk) = {n} /\ ExpectedIds(disk[n]) # {}) =>
              /\ DOMAIN collection' = ExpectedIds(disk[n])
              /\ VectorsOf(collection', n) = ExpectedIds(disk[n])
              /\ \E m \in manifestFile'.members :
                   /\ RecordsOf(manifestFile', n) = {m}
                   /\ Len(m.vectors) = Cardinality(ExpectedIds(disk[n]))
                   /\ ElementsOf(m.vectors) = ExpectedIds(disk[n])]_vars

----------------------------------------------------------------------------
(* The manifest on disk *)

\* every add call the pass made for file n succeeded, and there was one
AddedAll(cs, n) ==
  /\ CallsOn(cs, "add", n) # {}
  /\ \A k \in CallsOn(cs, "add", n) : cs[k].ok

\* C12: after every write of the manifest (the record removals of
\* update_files and the record insertions of embed_csv_and_store), loading
\* the file gives the mapping that was passed to save_processed_files, and
\* the file left by the pass is that of its last write; when no save fails,
\* every file for which the pass added vectors has its record in the file
\* the pass leaves, whatever later files of the pass wrote.
C12_ManifestRoundTrip ==
  pc = "wait" =>
    /\ \A k \in DOMAIN writes :
         /\ ~load_processed_files(writes[k].file).raised
         /\ load_processed_files(writes[k].file).val = writes[k].pf
    /\ writes # <<>> => manifestFile = writes[Len(writes)].file
    /\ <<"save">> \notin met =>
         \A n \in Present(disk) :
           AddedAll(calls, n) => Recorded(manifestFile, disk, n)

\* a pass removed the one old record and then wrote a record for each of two
\* files: three writes, and both records are in the file
C12_Witness ==
  /\ pc = "wait"
  /\ Len(writes) = 3
  /\ DOMAIN writes[1].pf = {}
  /\ Cardinality(DOMAIN writes[2].pf) = 1
  /\ Cardinality(DOMAIN writes[3].pf) = 2
  /\ \A n \in FileNames : n \in Present(disk) /\ Recorded(manifestFile, disk, n)

----------------------------------------------------------------------------
(* Failures of single gateway calls *)

\* the pass met failures of get_embeddings and no other failure
OnlyEmbeddingsFailed(hit) ==
  hit # {} /\ \A point \in hit : point[1] = "embed"

ListedIn(mf, n, uid) ==
  \E m \in RecordsOf(mf, n) : uid \in ElementsOf(m.vectors)

\* C13: when get_embeddings fails for an entry of a file and nothing else
\* fails in the pass, every other entry of that file whose embedding succeeds
\* is in the collection and listed in the file's manifest record after the
\* pass, and the id of the skipped entry is neither in the collection nor
\* listed in the record.
C13_FailedEmbeddingSkipsOneEntry ==
  [][(PassReturns /\ OnlyEmbeddingsFailed(met')) =>
       \A n \in Present(disk) : \A k \in CallsOn(calls', "embed", n) :
         ~calls'[k].ok =>
           /\ \A j \in CallsOn(calls', "embed", n) :
                calls'[j].ok =>
                  /\ calls'[j].uid \in DOMAIN collection'
                  /\ ListedIn(manifestFile', n, calls'[j].uid)
           /\ calls'[k].uid \notin DOMAIN collection'
           /\ ~ListedIn(manifestFile', n, calls'[k].uid)]_vars

\* the pass met failures of collection.delete and no other failure
OnlyDeletesFailed(hit) ==
  hit # {} /\ \A point \in hit : point[1] = "delete"

\* the pass embedded every included row of file n and added it to the
\* collection
Reembedded(cs, coll, dsk, n) ==
  \A e \in ExpectedEntries(dsk[n]) :
    /\ \E k \in CallsOn(cs, "embed", n) : cs[k].uid = e.uid /\ cs[k].ok
    /\ \E k \in CallsOn(cs, "add", n) : cs[k].uid = e.uid /\ cs[k].ok
    /\ e.uid \in DOMAIN coll

\* C14: when collection.delete fails for a file and nothing else fails in
\* the pass, the pass still embeds and stores every included row of that
\* file, and still calls collection.delete for every other file of the
\* directory and embeds and stores its included rows.
C14_DeleteFailureIsBestEffort ==
  [][(PassReturns /\ OnlyDeletesFailed(met')) =>
       \A n \in Present(disk) :
         <<"delete", n>> \in met' =>
           /\ Reembedded(calls', collection', disk, n)
           /\ \A g \in Present(disk) \ {n} :
                /\ CallsOn(calls', "delete", g) # {}
                /\ Reembedded(calls', collection', disk, g)]_vars

----------------------------------------------------------------------------
(* Manifest records and the vectors they list *)

\* the ids the pass added for file n, in the order of the add calls
AddedIds(cs, n) ==
  LET IsAdded(c) == c.op = "add" /\ c.file = n /\ c.ok
      added == SelectSeq(cs, IsAdded)
  IN [k \in DOMAIN added |-> added[k].uid]

\* C15: in a pass whose directory listing and manifest saves succeed, a file
\* has a record in the manifest the pass leaves if and only if the pass
\* added at least one vector for it, the record lists exactly the ids added,
\* in the order of the adds, and no record has an empty vectors list.
C15_RecordIffVectorAdded ==
  [][(PassReturns /\ <<"list">> \notin met' /\ <<"save">> \notin met') =>
       /\ \A n \in Present(disk) :
            /\ RecordsOf(manifestFile', n) # {} <=> AddedIds(calls', n) # <<>>
            /\ \A m \in RecordsOf(manifestFile', n) : m.vectors = AddedIds(calls', n)
       /\ \A m \in manifestFile'.members : m.vectors # <<>>]_vars

\* C16: the deletion step of update_files removes from the manifest exactly
\* the records of files that are no longer in the directory: no write of the
\* pass leaves out the record of a file that is still on disk, and, when the
\* listing and the saves succeed, no record of a missing file is left.
C16_OnlyMissingFilesLoseRecords ==
  [][PassReturns =>
       \A m \in manifestFile.members :
         /\ m.name \in Present(disk) =>
              \A k \in DOMAIN writes' : m.key \in DOMAIN writes'[k].pf
         /\ (m.name \notin Present(disk)
               /\ <<"list">> \notin met' /\ <<"save">> \notin met') =>
              m \notin manifestFile'.members]_vars

----------------------------------------------------------------------------
(* Rows shorter than the header *)

\* csv.DictReader gives None for the columns a short row lacks
ShortRow(row) == IsNone(row.name) \/ IsNone(row.content)

HasShortRow(file) ==
  ~file.body.empty /\ \E k \in DOMAIN file.body.rows : ShortRow(file.body.rows[k])

\* C17: a row that lacks name or content is skipped: in a pass in which no
\* listing, gateway call or save fails, the included rows of a file with such
\* a row are still embedded and stored, and every other file of the
\* directory still gets its collection.delete and has its included rows
\* embedded and stored.
C17_ShortRowIsSkipped ==
  [][(PassReturns /\ met' = {}) =>
       \A n \in Present(disk) :
         HasShortRow(disk[n]) =>
           /\ Reembedded(calls', collection', disk, n)
           /\ \A g \in Present(disk) \ {n} :
                /\ CallsOn(calls', "delete", g) # {}
                /\ Reembedded(calls', collection', disk, g)]_vars

----------------------------------------------------------------------------
(* One record per file *)

\* C18: after a pass that ends without an exception the manifest file holds
\* at most one record per file name, and the record of a file of the
\* directory is that of its present modified-time: no record of an earlier
\* version is left.
C18_OneRecordPerFile ==
  (pc = "wait" /\ ~caught) =>
    /\ \A m1, m2 \in manifestFile.members : m1.name = m2.name => m1 = m2
    /\ \A m \in manifestFile.members :
         m.name \in Present(disk) => m.modified = IsoFormat(disk[m.name].modified)

\* a file was processed, rewritten and processed again (a vector of its
\* earlier content is still in the collection, its delete having failed),
\* and the manifest holds one record for it, that of the later version
C18_Witness ==
  /\ pc = "wait"
  /\ ~caught
  /\ \E n \in Present(disk) :
       /\ \E u \in VectorsOf(collection, n) : u \notin ExpectedIds(disk[n])
       /\ Cardinality(RecordsOf(manifestFile, n)) = 1
       /\ Recorded(manifestFile, disk, n)
       /\ disk[n].modified > 1

====
